---- MODULE Spec2Model ----
(***************************************************************************)
(* Model of the TactiMerge prediction core:                                *)
(*   scripts/compute_strengths.py  -- the strength estimator               *)
(*   api/main.py                   -- load_strengths, poisson_score,       *)
(*                                    predict and compare                  *)
(* Floating point numbers are modelled as exact non-negative rationals     *)
(* [n, d] in lowest terms; d = 0 marks the two non-finite values the code  *)
(* can produce: NaN = 0/0 and Inf = 1/0.                                   *)
(***************************************************************************)
EXTENDS Integers, Sequences, FiniteSets, TLC

\* ------------------------------------------------------------------ bounds
MaxXg == 1
MaxHist == 2

\* ------------------------------------------------------- program constants
\* range(6) in poisson_score: goal counts 0..5
K_RANGE == 6
\* round(exp_xg, 2)
XG_DECIMALS == 2

Teams == {"Arsenal", "Liverpool"}
Cols == {"atk_home", "def_home", "atk_away", "def_away"}
FillMethods == {"league_mean", "team_median", "zero"}
FillArgs == FillMethods \cup {"bogus"}

\* ------------------------------------------------------------- arithmetic
RECURSIVE GCD(_, _)
GCD(a, b) == IF b = 0 THEN a ELSE GCD(b, a % b)

NaN == [n |-> 0, d |-> 0]
Inf == [n |-> 1, d |-> 0]

Rat(n, d) ==
    IF d = 0 THEN (IF n = 0 THEN NaN ELSE Inf)
    ELSE LET g == GCD(n, d) IN [n |-> n \div g, d |-> d \div g]

Num(k) == Rat(k, 1)
IsNaN(x) == x = NaN
IsFinite(x) == x.d # 0

Add(a, b) ==
    IF IsNaN(a) \/ IsNaN(b) THEN NaN
    ELSE IF a = Inf \/ b = Inf THEN Inf
    ELSE Rat(a.n * b.d + b.n * a.d, a.d * b.d)

Mul(a, b) ==
    IF IsNaN(a) \/ IsNaN(b) THEN NaN
    ELSE IF a = Inf \/ b = Inf
         THEN (IF a.n = 0 \/ b.n = 0 THEN NaN ELSE Inf)
    ELSE Rat(a.n * b.n, a.d * b.d)

Div(a, b) ==
    IF IsNaN(a) \/ IsNaN(b) THEN NaN
    ELSE IF a = Inf THEN (IF b = Inf THEN NaN ELSE Inf)
    ELSE IF b = Inf THEN Num(0)
    ELSE Rat(a.n * b.d, a.d * b.n)

RECURSIVE SumSeq(_)
SumSeq(s) == IF s = <<>> THEN Num(0) ELSE Add(Head(s), SumSeq(Tail(s)))

\* numpy / pandas mean: sum over count; the mean of nothing is NaN
Mean(s) == Div(SumSeq(s), Num(Len(s)))

Less(a, b) == IsFinite(a) /\ IsFinite(b) /\ a.n * b.d < b.n * a.d

RECURSIVE Insert(_, _)
Insert(x, s) ==
    IF s = <<>> THEN <<x>>
    ELSE IF Less(Head(s), x) THEN <<Head(s)>> \o Insert(x, Tail(s))
    ELSE <<x>> \o s

RECURSIVE Sorted(_)
Sorted(s) == IF s = <<>> THEN <<>> ELSE Insert(Head(s), Sorted(Tail(s)))

\* pandas median: middle value, or the mean of the two middle values
Median(s) ==
    LET o == Sorted(s)
        m == Len(s)
    IN  IF m = 0 THEN NaN
        ELSE IF m % 2 = 1 THEN o[(m + 1) \div 2]
        ELSE Div(Add(o[m \div 2], o[m \div 2 + 1]), Num(2))

\* ------------------------------------------------------ strength estimator
\* one record per match; a team does not play itself
MatchRecord ==
    {r \in [home_team : Teams, away_team : Teams,
             home_xg : 0..MaxXg, away_xg : 0..MaxXg] : r.home_team # r.away_team}

Histories == UNION {[1..m -> MatchRecord] : m \in 0..MaxHist}

\* the column `col` of the rows of df whose `key` field is t
RECURSIVE GroupValues(_, _, _, _)
GroupValues(df, key, t, col) ==
    IF df = <<>> THEN <<>>
    ELSE LET rest == GroupValues(Tail(df), key, t, col)
         IN  IF Head(df)[key] = t THEN <<Num(Head(df)[col])>> \o rest ELSE rest

GroupKeys(df, key) == {df[i][key] : i \in 1..Len(df)}

\* df.groupby(key).col.mean()
GroupMean(df, key, col) ==
    [t \in GroupKeys(df, key) |-> Mean(GroupValues(df, key, t, col))]

\* df.groupby(key).col.median()
GroupMedian(df, key, col) ==
    [t \in GroupKeys(df, key) |-> Median(GroupValues(df, key, t, col))]

\* a.combine_first(b): a's value unless missing or NaN, then b's
CombineFirst(a, b) ==
    [t \in DOMAIN a \cup DOMAIN b |->
        IF t \in DOMAIN a /\ ~IsNaN(a[t]) THEN a[t]
        ELSE IF t \in DOMAIN b THEN b[t] ELSE NaN]

At(series, t) == IF t \in DOMAIN series THEN series[t] ELSE NaN

\* pd.concat([home_atk, home_def, away_atk, away_def], axis=1): outer join
ConcatStrengths(df) ==
    LET home_atk == GroupMean(df, "home_team", "home_xg")
        home_def == GroupMean(df, "home_team", "away_xg")
        away_atk == GroupMean(df, "away_team", "away_xg")
        away_def == GroupMean(df, "away_team", "home_xg")
    IN  [t \in GroupKeys(df, "home_team") \cup GroupKeys(df, "away_team") |->
            [atk_home |-> At(home_atk, t), def_home |-> At(home_def, t),
             atk_away |-> At(away_atk, t), def_away |-> At(away_def, t)]]

\* DataFrame.fillna(scalar): every NaN cell takes the scalar
FillnaScalar(tbl, v) ==
    [t \in DOMAIN tbl |->
        [c \in Cols |-> IF IsNaN(tbl[t][c]) THEN v ELSE tbl[t][c]]]

\* DataFrame.fillna(dict): the dict is looked up by COLUMN label
FillnaDict(tbl, dict) ==
    [t \in DOMAIN tbl |->
        [c \in Cols |-> IF IsNaN(tbl[t][c]) /\ c \in DOMAIN dict
                        THEN dict[c] ELSE tbl[t][c]]]

\* df[['home_xg','away_xg']].values.mean()
RECURSIVE AllXg(_)
AllXg(df) ==
    IF df = <<>> THEN <<>>
    ELSE <<Num(Head(df).home_xg), Num(Head(df).away_xg)>> \o AllXg(Tail(df))

\* slip: the fill value averages the home_xg column only
RECURSIVE HomeXg(_)
HomeXg(df) ==
    IF df = <<>> THEN <<>> ELSE <<Num(Head(df).home_xg)>> \o HomeXg(Tail(df))

LeagueMeanFill_HomeOnly(df) == Mean(HomeXg(df))

LeagueMeanFill(df) == Mean(AllXg(df))

TeamMedians(df) ==
    CombineFirst(GroupMedian(df, "home_team", "home_xg"),
                 GroupMedian(df, "away_team", "away_xg"))

\* the `strengths` frame after the fill branch (fill_method is a valid one)
FilledStrengths(df, fill_method) ==
    LET strengths == ConcatStrengths(df)
    IN  IF fill_method = "league_mean"
        THEN FillnaScalar(strengths, LeagueMeanFill(df))
        ELSE IF fill_method = "team_median"
        THEN FillnaDict(strengths, TeamMedians(df))
        ELSE FillnaScalar(strengths, Num(0))

\* os.path.splitext + f"{base}_{version}{ext}"
VersionedPath(output_csv, version) ==
    [dir |-> output_csv.dir,
     base |-> output_csv.base \o "_" \o version,
     ext |-> output_csv.ext]

CanonicalPath == [dir |-> "data", base |-> "team_strengths", ext |-> ".csv"]

\* the (output_csv, version) arguments of a run: one resolves to the path the
\* API reads, one to a fresh file in a directory that does not exist yet
OutputTargets ==
    {[output_csv |-> [dir |-> "data", base |-> "team", ext |-> ".csv"],
      version |-> "strengths"],
     [output_csv |-> [dir |-> "out", base |-> "team", ext |-> ".csv"],
      version |-> "v1"]}
Paths == {VersionedPath(o.output_csv, o.version) : o \in OutputTargets}
          \cup {CanonicalPath}

\* optional values: <<>> is Python's None / a missing file, <<x>> is x
None == <<>>
NoFile == <<>>
Some(x) == <<x>>
Get(o) == o[1]

\* ------------------------------------------------------- match predictor
GoalCounts == 0..(K_RANGE - 1)

RECURSIVE Pow(_, _)
Pow(x, m) == IF m = 0 THEN 1 ELSE x * Pow(x, m - 1)

RECURSIVE Fact(_)
Fact(k) == IF k = 0 THEN 1 ELSE k * Fact(k - 1)

\* exact products beyond the machine integers: little-endian digits in
\* base BigBase, no leading zero digit, <<>> is zero
BigBase == 10000

RECURSIVE BigTimes(_, _, _)
BigTimes(digits, s, carry) ==
    IF digits = <<>>
    THEN (IF carry = 0 THEN <<>>
          ELSE <<carry % BigBase>> \o BigTimes(<<>>, s, carry \div BigBase))
    ELSE LET v == Head(digits) * s + carry
         IN  <<v % BigBase>> \o BigTimes(Tail(digits), s, v \div BigBase)

RECURSIVE BigPowTimes(_, _, _)
\* x^m * c for x > 0, c > 0
BigPowTimes(x, m, c) ==
    IF m = 0 THEN BigTimes(<<1>>, c, 0)
    ELSE BigTimes(BigPowTimes(x, m - 1, c), x, 0)

RECURSIVE BigLessFrom(_, _, _)
BigLessFrom(a, b, i) ==
    IF i = 0 THEN FALSE
    ELSE IF a[i] # b[i] THEN a[i] < b[i]
    ELSE BigLessFrom(a, b, i - 1)

BigLess(a, b) ==
    IF Len(a) # Len(b) THEN Len(a) < Len(b) ELSE BigLessFrom(a, b, Len(a))

\* poisson.pmf(k, lam) > poisson.pmf(j, lam), as a comparison of floats:
\* any comparison with NaN is false; pmf(., NaN) is NaN; pmf(0, Inf) = 0
\* and pmf(k, Inf) = NaN; pmf(0, 0) = 1 and pmf(k, 0) = 0; otherwise
\* lam^k / k! > lam^j / j!
PmfGreater(lam, k, j) ==
    IF ~IsFinite(lam) THEN FALSE
    ELSE IF lam.n = 0 THEN (k = 0 /\ j > 0)
    ELSE IF k = j THEN FALSE
    ELSE IF k > j
         THEN BigLess(BigPowTimes(lam.d, k - j, Fact(k)),
                      BigPowTimes(lam.n, k - j, Fact(j)))
         ELSE BigLess(BigPowTimes(lam.n, j - k, Fact(k)),
                      BigPowTimes(lam.d, j - k, Fact(j)))

\* poisson_score(): the rate of the distribution {k: pmf(k, lam)}
poisson_score(atk, def_, league_avg) == Div(Mul(atk, def_), league_avg)

\* max(dist, key=dist.get) over the keys 0..5 in insertion order: the first
\* key is kept until a later key has a strictly greater mass
RECURSIVE MaxKeyFrom(_, _, _)
MaxKeyFrom(lam, best, k) ==
    IF k >= K_RANGE THEN best
    ELSE MaxKeyFrom(lam, IF PmfGreater(lam, k, best) THEN k ELSE best, k + 1)

\* slip: `>=` in place of `>`, so that the last of two equal masses wins
RECURSIVE MaxKeyFrom_LastWins(_, _, _)
MaxKeyFrom_LastWins(lam, best, k) ==
    IF k >= K_RANGE THEN best
    ELSE MaxKeyFrom_LastWins(lam, IF PmfGreater(lam, best, k) THEN best ELSE k, k + 1)

MaxKey_LastWins(lam) == MaxKeyFrom_LastWins(lam, 0, 1)

MaxKey(lam) == MaxKeyFrom(lam, 0, 1)

\* round(x, ndigits) of a numpy float: scale, round half to even, unscale
Round(x, ndigits) ==
    IF ~IsFinite(x) THEN x
    ELSE LET scale == Pow(10, ndigits)
             q == (x.n * scale) \div x.d
             r == (x.n * scale) % x.d
             up == IF 2 * r > x.d THEN 1
                   ELSE IF 2 * r = x.d THEN q % 2 ELSE 0
         IN  Rat(q + up, scale)

RECURSIVE CellSeq(_, _, _)
CellSeq(tbl, teams, cols) ==
    IF teams = {} THEN <<>>
    ELSE LET t == CHOOSE x \in teams : TRUE
         IN  [c \in 1..Len(cols) |-> tbl[t][cols[c]]] \o CellSeq(tbl, teams \ {t}, cols)

\* strengths[[...cols...]].values.mean(): every cell of the listed columns
ColumnsMean(tbl, cols) == Mean(CellSeq(tbl, DOMAIN tbl, cols))

\* slip: the atk_away column left out of the average
PredictLeagueAvg_HomeOnly(tbl) == ColumnsMean(tbl, <<"atk_home">>)

PredictLeagueAvg(tbl) == ColumnsMean(tbl, <<"atk_home", "atk_away">>)
CompareLeagueAvg(tbl) ==
    ColumnsMean(tbl, <<"atk_home", "def_home", "atk_away", "def_away">>)

\* an exception that no handler catches: the framework answers 500
Unhandled(error, key, done) ==
    [status |-> 500, error |-> error, detail |-> key, computed |-> done]

HTTPException(status, key, done) ==
    [status |-> status, error |-> "HTTPException", detail |-> key, computed |-> done]

\* predict(), from the first strengths.at[...] to the response
predict(tbl, home_team, away_team) ==
    IF home_team \notin DOMAIN tbl THEN Unhandled("KeyError", home_team, {})
    ELSE IF away_team \notin DOMAIN tbl THEN Unhandled("KeyError", away_team, {})
    ELSE LET atk_h == tbl[home_team].atk_home
             def_a == tbl[away_team].def_away
             atk_a == tbl[away_team].atk_away
             def_h == tbl[home_team].def_home
             league_avg == PredictLeagueAvg(tbl)
             dist_h == poisson_score(atk_h, def_a, league_avg)
             dist_a == poisson_score(atk_a, def_h, league_avg)
             home_goals == MaxKey(dist_h)
             away_goals == MaxKey(dist_a)
             exp_xg == Div(Add(Mul(atk_h, def_a), Mul(atk_a, def_h)),
                           Mul(Num(2), league_avg))
         IN  [status |-> 200,
              home_team |-> home_team,
              away_team |-> away_team,
              predicted_score |-> ToString(home_goals) \o "-" \o ToString(away_goals),
              expected_xg |-> Round(exp_xg, XG_DECIMALS)]

\* get_team_stats() of compare(), for a team of the index
TeamCompareStats(tbl, team, league_avg) ==
    LET row == tbl[team]
    IN  [team |-> team,
         atk_home |-> row.atk_home, def_home |-> row.def_home,
         atk_away |-> row.atk_away, def_away |-> row.def_away,
         atk_home_ratio |-> Div(row.atk_home, league_avg),
         def_home_ratio |-> Div(row.def_home, league_avg),
         atk_away_ratio |-> Div(row.atk_away, league_avg),
         def_away_ratio |-> Div(row.def_away, league_avg)]

\* compare(), from the league average to the response
compare(tbl, team_a, team_b) ==
    LET league_avg == CompareLeagueAvg(tbl)
    IN  IF team_a \notin DOMAIN tbl
        THEN HTTPException(404, team_a, {"league_avg"})
        ELSE IF team_b \notin DOMAIN tbl
        THEN HTTPException(404, team_b, {"league_avg", "ratios"})
        ELSE LET stats_a == TeamCompareStats(tbl, team_a, league_avg)
                 stats_b == TeamCompareStats(tbl, team_b, league_avg)
             IN  [status |-> 200,
                  league_avg |-> Round(league_avg, 3),
                  stats |-> <<stats_a, stats_b>>,
                  expected_xg_a_vs_b |->
                      Round(Div(Mul(stats_a.atk_home, stats_b.def_away), league_avg), 2),
                  expected_xg_b_vs_a |->
                      Round(Div(Mul(stats_b.atk_home, stats_a.def_away), league_avg), 2)]

\* the team names a request can carry: the teams of the histories and one
\* name that no history mentions
Names == Teams \cup {"Chelsea"}
Ops == {"predict", "compare"}

Handle(op, tbl, a, b) == IF op = "predict" THEN predict(tbl, a, b) ELSE compare(tbl, a, b)

\* ------------------------------------------------------------------ state
VARIABLES
    storage,      \* durable storage: path -> strength table, or NoFile
    dirs,         \* directories that exist
    est_in,       \* arguments of the current compute_strengths run
    est_out,      \* its outcome: "pending", "saved" or "ValueError"
    _strengths,   \* api/main.py module global: None or the loaded frame
    reads,        \* number of completed pd.read_csv calls of the process
    thr           \* per request-handler thread: position and locals

vars == <<storage, dirs, est_in, est_out, _strengths, reads, thr>>

NoArg == "-"
Threads == {"t1", "t2"}
\* a thread between two requests; prev is the outcome of its previous request
IdleAfter(prev) == [pc |-> "idle", op |-> NoArg, a |-> NoArg, b |-> NoArg,
                    tmp |-> None, strengths |-> None, result |-> None,
                    prev |-> prev]
Idle == IdleAfter(NoArg)

EstimatorArgs ==
    {[history |-> h, fill_method |-> f,
      output_csv |-> o.output_csv, version |-> o.version] :
        h \in Histories, f \in FillArgs, o \in OutputTargets}

\* slip: the frame is written before the fill_method is validated
compute_strengths_WriteFirst(args) ==
    LET versioned_path == VersionedPath(args.output_csv, args.version)
        strengths == IF args.fill_method \in FillMethods
                     THEN FilledStrengths(args.history, args.fill_method)
                     ELSE ConcatStrengths(args.history)
    IN  /\ dirs' = dirs \cup {versioned_path.dir}
        /\ storage' = [storage EXCEPT ![versioned_path] = Some(strengths)]
        /\ est_out' = IF args.fill_method \in FillMethods
                      THEN "saved" ELSE "ValueError"

\* scripts/compute_strengths.py, compute_strengths(): the whole call
compute_strengths(args) ==
    IF args.fill_method \notin FillMethods
    THEN /\ est_out' = "ValueError"
         /\ UNCHANGED <<storage, dirs>>
    ELSE LET strengths == FilledStrengths(args.history, args.fill_method)
             versioned_path == VersionedPath(args.output_csv, args.version)
         IN  /\ dirs' = dirs \cup {versioned_path.dir}
             /\ storage' = [storage EXCEPT ![versioned_path] = Some(strengths)]
             /\ est_out' = "saved"

\* ------------------------------------------- specification of the estimator
StaleTable == FilledStrengths(<<[home_team |-> "Arsenal", away_team |-> "Liverpool",
                                 home_xg |-> 1, away_xg |-> 1]>>, "zero")

InitEst ==
    /\ est_in \in EstimatorArgs
    /\ est_out = "pending"
    /\ storage = [p \in Paths |-> IF p = CanonicalPath THEN Some(StaleTable) ELSE NoFile]
    /\ dirs = {"data"}
    /\ _strengths = None
    /\ reads = 0
    /\ thr = [t \in Threads |-> Idle]

EstimatorRun ==
    /\ est_out = "pending"
    /\ compute_strengths(est_in)
    /\ UNCHANGED <<est_in, _strengths, reads, thr>>

NextEst == EstimatorRun

SpecEst == InitEst /\ [][NextEst]_vars

\* ------------------------------------------- specification of the predictor
\* the tables the estimator can persist
EstimatorTables ==
    {FilledStrengths(h, f) : h \in Histories, f \in FillMethods}

\* the serving process once its cache is loaded from the canonical path
InitPred ==
    /\ \E tbl \in EstimatorTables :
          /\ storage = [p \in Paths |-> IF p = CanonicalPath THEN Some(tbl) ELSE NoFile]
          /\ _strengths = Some([id |-> 1, tbl |-> tbl])
    /\ dirs = {"data"}
    /\ est_in = NoArg
    /\ est_out = "pending"
    /\ reads = 1
    /\ thr = [t \in Threads |-> Idle]

\* a whole request on thread t1: load_strengths() returns the cached frame
\* and the handler computes the response
Request(op, a, b) ==
    /\ thr["t1"].pc = "idle"
    /\ _strengths # None
    /\ thr' = [thr EXCEPT !["t1"] =
                 [pc |-> "done", op |-> op, a |-> a, b |-> b, tmp |-> None,
                  prev |-> NoArg, strengths |-> _strengths,
                  result |-> Some(Handle(op, Get(_strengths).tbl, a, b))]]
    /\ UNCHANGED <<storage, dirs, est_in, est_out, _strengths, reads>>

PredictRequest == \E a \in Names, b \in Names : Request("predict", a, b)
CompareRequest == \E a \in Names, b \in Names : Request("compare", a, b)

NextPred == PredictRequest \/ CompareRequest

SpecPred == InitPred /\ [][NextPred]_vars

\* ---------------------------------- specification of the serving process
\* FastAPI runs the `def` handlers predict and compare on worker threads, so
\* the statements of load_strengths of two requests interleave.  The
\* estimator is a separate offline process that writes the durable storage.

ServeRequests ==
    {[op |-> "predict", a |-> "Arsenal", b |-> "Liverpool"],
     [op |-> "compare", a |-> "Liverpool", b |-> "Chelsea"]}

ServeRuns ==
    {[history |-> <<[home_team |-> "Arsenal", away_team |-> "Liverpool",
                     home_xg |-> x, away_xg |-> 1]>>,
      fill_method |-> "league_mean",
      output_csv |-> [dir |-> "data", base |-> "team", ext |-> ".csv"],
      version |-> "strengths"] : x \in {0, 1}}

Init ==
    /\ storage = [p \in Paths |-> NoFile]
    /\ dirs = {"data"}
    /\ est_in = NoArg
    /\ est_out = "pending"
    /\ _strengths = None
    /\ reads = 0
    /\ thr = [t \in Threads |-> Idle]

\* the offline estimator runs against the durable storage
OfflineRun ==
    \E args \in ServeRuns :
        /\ compute_strengths(args)
        /\ est_in' = args
        /\ UNCHANGED <<_strengths, reads, thr>>

\* the operator removes the file at the canonical path
FileRemoved ==
    /\ storage[CanonicalPath] # NoFile
    /\ storage' = [storage EXCEPT ![CanonicalPath] = NoFile]
    /\ UNCHANGED <<dirs, est_in, est_out, _strengths, reads, thr>>

\* what a file that exists but cannot be read or parsed holds
Unreadable == [unreadable |-> TRUE]

\* the file at the canonical path loses its read permission or its content
FileDamaged ==
    /\ storage[CanonicalPath] \notin {NoFile, Some(Unreadable)}
    /\ storage' = [storage EXCEPT ![CanonicalPath] = Some(Unreadable)]
    /\ UNCHANGED <<dirs, est_in, est_out, _strengths, reads, thr>>

\* pd.read_csv raises PermissionError / EmptyDataError / ParserError: not a
\* FileNotFoundError, so the handler does not catch it
ReadFailed(t) ==
    [thr[t] EXCEPT !.pc = "done", !.tmp = None, !.strengths = None,
                   !.result = Some(Unhandled("OSError", "data/team_strengths.csv", {}))]

\* the handler's `except FileNotFoundError: raise HTTPException(500, ...)`
StorageUnavailable(t) ==
    [thr[t] EXCEPT !.pc = "done", !.tmp = None, !.strengths = None,
                   !.result = Some(HTTPException(500, "data/team_strengths.csv", {}))]

\* a request arrives: predict() / compare() is entered and calls load_strengths()
Call(t) ==
    /\ thr[t].pc = "idle"
    /\ \E r \in ServeRequests :
          thr' = [thr EXCEPT ![t].pc = "check", ![t].op = r.op,
                             ![t].a = r.a, ![t].b = r.b]
    /\ UNCHANGED <<storage, dirs, est_in, est_out, _strengths, reads>>

\* `if _strengths is None:`
LoadCheck(t) ==
    /\ thr[t].pc = "check"
    /\ thr' = [thr EXCEPT ![t].pc = IF _strengths = None THEN "exists" ELSE "return"]
    /\ UNCHANGED <<storage, dirs, est_in, est_out, _strengths, reads>>

\* slip: a missing file leaves an empty frame in the cache
LoadExists_CachesFailure(t) ==
    /\ thr[t].pc = "exists"
    /\ thr' = [thr EXCEPT ![t] =
                 IF storage[CanonicalPath] = NoFile
                 THEN StorageUnavailable(t)
                 ELSE [thr[t] EXCEPT !.pc = "read"]]
    /\ _strengths' = IF storage[CanonicalPath] = NoFile
                     THEN Some([id |-> 0, tbl |-> <<>>]) ELSE _strengths
    /\ UNCHANGED <<storage, dirs, est_in, est_out, reads>>

\* `if not os.path.exists(path): raise FileNotFoundError`
LoadExists(t) ==
    /\ thr[t].pc = "exists"
    /\ thr' = [thr EXCEPT ![t] =
                 IF storage[CanonicalPath] = NoFile
                 THEN StorageUnavailable(t)
                 ELSE [thr[t] EXCEPT !.pc = "read"]]
    /\ UNCHANGED <<storage, dirs, est_in, est_out, _strengths, reads>>

\* `pd.read_csv(path, index_col=0)`: a new frame, or FileNotFoundError when
\* the file has been removed since the existence test, or another error
\* when it cannot be read
LoadRead(t) ==
    /\ thr[t].pc = "read"
    /\ IF storage[CanonicalPath] = NoFile
       THEN /\ thr' = [thr EXCEPT ![t] = StorageUnavailable(t)]
            /\ reads' = reads
       ELSE IF storage[CanonicalPath] = Some(Unreadable)
       THEN /\ thr' = [thr EXCEPT ![t] = ReadFailed(t)]
            /\ reads' = reads
       ELSE /\ thr' = [thr EXCEPT ![t].pc = "assign",
                          ![t].tmp = Some([id |-> reads + 1,
                                           tbl |-> Get(storage[CanonicalPath])])]
            /\ reads' = reads + 1
    /\ UNCHANGED <<storage, dirs, est_in, est_out, _strengths>>

\* `_strengths = <the frame read>`
LoadAssign(t) ==
    /\ thr[t].pc = "assign"
    /\ _strengths' = thr[t].tmp
    /\ thr' = [thr EXCEPT ![t].pc = "return", ![t].tmp = None]
    /\ UNCHANGED <<storage, dirs, est_in, est_out, reads>>

\* `return _strengths`: the global is read again
LoadReturn(t) ==
    /\ thr[t].pc = "return"
    /\ thr' = [thr EXCEPT ![t].pc = "compute", ![t].strengths = _strengths]
    /\ UNCHANGED <<storage, dirs, est_in, est_out, _strengths, reads>>

\* the rest of predict() / compare() on the frame load_strengths returned
Respond(t) ==
    /\ thr[t].pc = "compute"
    /\ thr' = [thr EXCEPT ![t].pc = "done",
                 ![t].result = Some(Handle(thr[t].op, Get(thr[t].strengths).tbl,
                                           thr[t].a, thr[t].b))]
    /\ UNCHANGED <<storage, dirs, est_in, est_out, _strengths, reads>>

\* the response is sent and the worker thread is free again
Finish(t) ==
    /\ thr[t].pc = "done"
    /\ thr' = [thr EXCEPT ![t] =
                 IdleAfter(IF thr[t].strengths = None THEN "failed" ELSE "served")]
    /\ UNCHANGED <<storage, dirs, est_in, est_out, _strengths, reads>>

Calls == \E t \in Threads : Call(t)
LoadChecks == \E t \in Threads : LoadCheck(t)
LoadExistsTests == \E t \in Threads : LoadExists(t)
LoadReads == \E t \in Threads : LoadRead(t)
LoadAssigns == \E t \in Threads : LoadAssign(t)
LoadReturns == \E t \in Threads : LoadReturn(t)
Responds == \E t \in Threads : Respond(t)
Finishes == \E t \in Threads : Finish(t)

Next ==
    \/ Calls \/ LoadChecks \/ LoadExistsTests \/ LoadReads \/ LoadAssigns
    \/ LoadReturns \/ Responds \/ Finishes
    \/ OfflineRun \/ FileRemoved \/ FileDamaged

Spec == Init /\ [][Next]_vars

\* ------------------------------------------------- estimator properties
EstPath == VersionedPath(est_in.output_csv, est_in.version)
EstTeams == GroupKeys(est_in.history, "home_team")
                \cup GroupKeys(est_in.history, "away_team")
EstTable == Get(storage[EstPath])
InitStorage == [p \in Paths |-> IF p = CanonicalPath THEN Some(StaleTable) ELSE NoFile]

\* C1: after compute_strengths on a non-empty history, under each of the
\* three fill strategies, every team of the history has a row in the
\* persisted table with all four cells defined (no NaN).
C1_NoUndefinedCell ==
    (est_out = "saved" /\ est_in.history # <<>>) =>
        \A t \in EstTeams :
            /\ t \in DOMAIN EstTable
            /\ \A c \in Cols : ~IsNaN(EstTable[t][c])

\* C4: a run with a fill_method outside league_mean / team_median / zero
\* ends in the configuration error and changes neither the files nor the
\* directories of the storage.
C4_UnknownFillNoWrite ==
    [][(est_out = "pending" /\ est_in.fill_method \notin FillMethods
            /\ est_out' # "pending")
        => (est_out' = "ValueError" /\ storage' = storage /\ dirs' = dirs)]_vars

C4_Witness ==
    /\ est_out = "ValueError"
    /\ est_in.fill_method = "bogus"
    /\ est_in.history # <<>>
    /\ storage = InitStorage
    /\ "out" \notin dirs

\* C5: a league_mean run on the empty history fails with the
\* insufficient-data error and writes nothing.
C5_EmptyHistoryFails ==
    (est_in.history = <<>> /\ est_in.fill_method = "league_mean"
        /\ est_out # "pending")
    => (est_out = "InsufficientDataError" /\ storage = InitStorage)

\* indices of the records in which team t has the venue role `key`
RoleIdx(t, key) == {i \in 1..Len(est_in.history) : est_in.history[i][key] = t}

RECURSIVE TotalXg(_, _)
TotalXg(I, col) ==
    IF I = {} THEN 0
    ELSE LET i == CHOOSE x \in I : TRUE
         IN  est_in.history[i][col] + TotalXg(I \ {i}, col)

\* cell is the exact quotient total / count
IsQuotient(cell, total, count) ==
    /\ cell.d > 0
    /\ cell.n * count = total * cell.d

AllIdx == 1..Len(est_in.history)

\* C10: under league_mean on a non-empty history, a cell whose team has no
\* match in that venue role is the mean of all home_xg and away_xg values of
\* the history; a cell with matches is the team's group mean (atk_home =
\* mean home_xg, def_home = mean away_xg over its home matches; atk_away =
\* mean away_xg, def_away = mean home_xg over its away matches).
C10_LeagueMeanCells ==
    (est_out = "saved" /\ est_in.fill_method = "league_mean"
        /\ est_in.history # <<>>) =>
        \A t \in EstTeams :
            LET H == RoleIdx(t, "home_team")
                A == RoleIdx(t, "away_team")
                all == TotalXg(AllIdx, "home_xg") + TotalXg(AllIdx, "away_xg")
                n == 2 * Len(est_in.history)
                row == EstTable[t]
            IN  /\ IF H = {}
                   THEN /\ IsQuotient(row.atk_home, all, n)
                        /\ IsQuotient(row.def_home, all, n)
                   ELSE /\ IsQuotient(row.atk_home, TotalXg(H, "home_xg"), Cardinality(H))
                        /\ IsQuotient(row.def_home, TotalXg(H, "away_xg"), Cardinality(H))
                /\ IF A = {}
                   THEN /\ IsQuotient(row.atk_away, all, n)
                        /\ IsQuotient(row.def_away, all, n)
                   ELSE /\ IsQuotient(row.atk_away, TotalXg(A, "away_xg"), Cardinality(A))
                        /\ IsQuotient(row.def_away, TotalXg(A, "home_xg"), Cardinality(A))

\* a league_mean run where one team played only at home and its away cells
\* were filled by a mean that differs from each of its own group means
C10_Witness ==
    /\ est_out = "saved"
    /\ est_in.fill_method = "league_mean"
    /\ Len(est_in.history) = 2
    /\ \E t \in EstTeams :
          /\ RoleIdx(t, "away_team") = {}
          /\ Cardinality(RoleIdx(t, "home_team")) = 2
          /\ EstTable[t].atk_away = EstTable[t].def_away
          /\ EstTable[t].atk_away # EstTable[t].atk_home
          /\ EstTable[t].atk_away # EstTable[t].def_home
          /\ EstTable[t].atk_home.d = 2

\* ------------------------------------------------- predictor properties
Finished(t) == thr[t].pc = "done" /\ thr[t].strengths # None
TableOf(t) == Get(thr[t].strengths).tbl
ResultOf(t) == Get(thr[t].result)
Missing(t) == {thr[t].a, thr[t].b} \ DOMAIN TableOf(t)

\* C2: a predict or compare request that names a team absent from the
\* loaded table ends in the not-found error naming a missing team, and no
\* league average, ratio or lambda has been computed before the failure.
C2_MissingTeamNotFound ==
    \A t \in Threads :
        (Finished(t) /\ Missing(t) # {}) =>
            /\ ResultOf(t).status = 404
            /\ ResultOf(t).detail \in Missing(t)
            /\ ResultOf(t).computed = {}

RECURSIVE SumAtk(_, _)
SumAtk(tbl, teams) ==
    IF teams = {} THEN Num(0)
    ELSE LET x == CHOOSE y \in teams : TRUE
         IN  Add(Add(tbl[x].atk_home, tbl[x].atk_away), SumAtk(tbl, teams \ {x}))

\* mean of every atk_home and atk_away cell of the whole table
WholeTableAvg(tbl) == Div(SumAtk(tbl, DOMAIN tbl), Num(2 * Cardinality(DOMAIN tbl)))

LambdaHome(t) ==
    Div(Mul(TableOf(t)[thr[t].a].atk_home, TableOf(t)[thr[t].b].def_away),
        WholeTableAvg(TableOf(t)))
LambdaAway(t) ==
    Div(Mul(TableOf(t)[thr[t].b].atk_away, TableOf(t)[thr[t].a].def_home),
        WholeTableAvg(TableOf(t)))

Maximises(lam, k) == \A j \in 0..5 : ~PmfGreater(lam, j, k)
SmallestMode(lam, k) ==
    /\ k \in 0..5
    /\ Maximises(lam, k)
    /\ \A j \in 0..(k - 1) : ~Maximises(lam, j)

PredictOk(t) ==
    /\ Finished(t)
    /\ thr[t].op = "predict"
    /\ Missing(t) = {}

\* C7: the predicted score of a predict call with both teams present is
\* "h-a" where h (a) is the smallest goal count in 0..5 whose Poisson mass
\* under lambda_home (lambda_away) no other count in 0..5 exceeds.
C7_SmallestMode ==
    \A t \in Threads :
        PredictOk(t) =>
            \E h \in 0..5, a \in 0..5 :
                /\ SmallestMode(LambdaHome(t), h)
                /\ SmallestMode(LambdaAway(t), a)
                /\ ResultOf(t).predicted_score = ToString(h) \o "-" \o ToString(a)

\* lambda_home = 2 makes P(1) = P(2); the smaller count is reported, and
\* the away side's rate is beyond the represented range
C7_Witness ==
    \E t \in Threads :
        /\ PredictOk(t)
        /\ LambdaHome(t) = Num(2)
        /\ ~PmfGreater(Num(2), 1, 2) /\ ~PmfGreater(Num(2), 2, 1)
        /\ \E a \in 0..5 : ResultOf(t).predicted_score = "1-" \o ToString(a)

\* r is x rounded to two places: a multiple of 1/100 within 1/200 of x
IsRounded2(r, x) ==
    IF ~IsFinite(x) THEN r = x
    ELSE /\ IsFinite(r)
         /\ 100 % r.d = 0
         /\ LET diff == r.n * x.d - x.n * r.d
                mag == IF diff < 0 THEN 0 - diff ELSE diff
            IN  200 * mag <= r.d * x.d

\* C8: expected_xg of a predict call with both teams present is
\* (lambda_home + lambda_away) / 2 rounded to two places, with the lambdas
\* taken over the mean of all atk_home and atk_away cells of the table.
C8_ExpectedXg ==
    \A t \in Threads :
        PredictOk(t) =>
            IsRounded2(ResultOf(t).expected_xg,
                       Div(Add(LambdaHome(t), LambdaAway(t)), Num(2)))

\* a prediction between one team and itself in a two-team table: the
\* average over the whole table differs from the average over the team of
\* the match, and expected_xg had to be rounded
C8_Witness ==
    \E t \in Threads :
        /\ PredictOk(t)
        /\ thr[t].a = thr[t].b
        /\ Cardinality(DOMAIN TableOf(t)) = 2
        /\ IsFinite(WholeTableAvg(TableOf(t)))
        /\ WholeTableAvg(TableOf(t)) # SumAtk(TableOf(t), {thr[t].a})
        /\ WholeTableAvg(TableOf(t)) # Div(SumAtk(TableOf(t), {thr[t].a}), Num(2))
        /\ IsFinite(ResultOf(t).expected_xg)
        /\ ResultOf(t).expected_xg # Div(Add(LambdaHome(t), LambdaAway(t)), Num(2))

\* ------------------------------------------- serving process properties
\* C3: the strength table is read and assigned to the cache at most once in
\* the life of the process, and every caller is handed the same frame.
C3_LoadedAtMostOnce ==
    /\ reads <= 1
    /\ \A t \in Threads, u \in Threads :
          (thr[t].strengths # None /\ thr[u].strengths # None)
              => thr[t].strengths = thr[u].strengths

\* C6: once the cache holds a table, no step replaces it by another table,
\* whatever the estimator writes to the storage meanwhile.
C6_CacheNeverChanges ==
    [][_strengths # None =>
          (_strengths' # None /\ Get(_strengths').tbl = Get(_strengths).tbl)]_vars

\* thread t is about to find the storage unavailable: at the existence
\* test with no file, or at the read with no file or an unreadable one
FindsNoTable(t) ==
    \/ thr[t].pc = "exists" /\ storage[CanonicalPath] = NoFile
    \/ thr[t].pc = "read" /\ storage[CanonicalPath] \in {NoFile, Some(Unreadable)}

\* C9: a request whose load finds the file at the canonical path absent or
\* unreadable ends, in that same step, in a server-side failure (500):
\* nothing was looked up or computed, the file is not read again, and the
\* cache and the count of reads are as before the step (so the cache stays
\* empty for a later call).
C9_StorageUnavailable ==
    [][\A t \in Threads :
          (FindsNoTable(t) /\ thr'[t] # thr[t]) =>
              /\ thr'[t].pc = "done"
              /\ thr'[t].strengths = None
              /\ Get(thr'[t].result).status = 500
              /\ Get(thr'[t].result).computed = {}
              /\ _strengths' = _strengths
              /\ reads' = reads]_vars

\* a thread whose previous request failed for the missing file, and whose
\* next request, made after the file has appeared, loaded it and was served
C9_Witness ==
    \E t \in Threads :
        /\ thr[t].prev = "failed"
        /\ Finished(t)
        /\ ResultOf(t).status = 200
        /\ thr[t].strengths = _strengths
        /\ reads = 1
        /\ storage[CanonicalPath] = Some(TableOf(t))

====
